---- MODULE Spec2Model ----
(***************************************************************************)
(* Model of app4.py: a Streamlit script that loads a classifier, a scaler  *)
(* and an odds-ratio table once per process (st.cache_resource), and on    *)
(* every rerun of the script reads five patient inputs, and, once a        *)
(* diagnosis was requested, scores the record, derives the risk tier and   *)
(* renders the results page.                                               *)
(*                                                                         *)
(* Units.  Patient values and odds ratios are decimal inputs compared with *)
(* decimal literals only, so they are kept in fixed point: glucose in      *)
(* mg/dL, HbA1c and IMC in tenths, odds ratios in hundredths.  The         *)
(* probability is multiplied by 100 before most comparisons, which rounds, *)
(* so probabilities are IEEE-754 binary64 values, kept exactly.            *)
(***************************************************************************)
EXTENDS Integers, Sequences, FiniteSets, TLC

(***************************************************************************)
(* binary64.  A positive double is m * 2^ex with 2^52 <= m < 2^53; m is    *)
(* held as three limbs, m = hi * 2^36 + mid * 2^18 + lo.  Zero is the      *)
(* all-zero record.                                                        *)
(***************************************************************************)
Limb == 2^18

Dbl(h, m, l, x) == [hi |-> h, mid |-> m, lo |-> l, ex |-> x]

DZero == Dbl(0, 0, 0, 0)

IsZero(d) == d.hi = 0

\* x < y for non-negative doubles
DLt(x, y) ==
    IF IsZero(y) THEN FALSE
    ELSE IF IsZero(x) THEN TRUE
    ELSE IF x.ex # y.ex THEN x.ex < y.ex
    ELSE IF x.hi # y.hi THEN x.hi < y.hi
    ELSE IF x.mid # y.mid THEN x.mid < y.mid
    ELSE x.lo < y.lo

\* x >= y
DGe(x, y) == ~DLt(x, y)

\* x > y
DGt(x, y) == DLt(y, x)

\* The product d * 100 rounded to nearest, ties to even (Python float `*`).
\* The exact product has 59 or 60 bits; s bits are shifted out.
FloatMul100(d) ==
    IF IsZero(d) THEN d
    ELSE
      LET c1 == 100 * d.lo
          b1 == 100 * d.mid + (c1 \div Limb)
          a1 == 100 * d.hi + (b1 \div Limb)
          b2 == b1 % Limb
          c2 == c1 % Limb
          s  == IF a1 < 2^23 THEN 6 ELSE 7
          P  == 2^s
          H  == 2^(s - 1)
          U  == Limb \div P
          qa == a1 \div P
          qb == (a1 % P) * U + (b2 \div P)
          qc == (b2 % P) * U + (c2 \div P)
          r  == c2 % P
          up == (r > H) \/ (r = H /\ qc % 2 = 1)
          n  == IF up THEN qc + 1 ELSE qc
          rc == n % Limb
          m  == qb + (n \div Limb)
          rb == m % Limb
          ra == qa + (m \div Limb)
      IN  IF ra = 2^17 THEN Dbl(2^16, 0, 0, d.ex + s + 1)
          ELSE Dbl(ra, rb, rc, d.ex + s)

\* Literals of the script, as doubles.
D0_2 == Dbl(104857, 157286, 104858, -55)   \* 0.2
D0_5 == Dbl(65536, 0, 0, -53)              \* 0.5
D1_0 == Dbl(65536, 0, 0, -52)              \* 1.0
D20  == Dbl(81920, 0, 0, -48)              \* 20
D30  == Dbl(122880, 0, 0, -48)             \* 30
D50  == Dbl(102400, 0, 0, -47)             \* 50
D70  == Dbl(71680, 0, 0, -46)              \* 70

\* Doubles a classifier can return, in increasing order:
\* 0.0, 0.05, 0.19999999999999998 (the double just below 0.2), 0.2,
\* 0.20000000000000004, 0.25, 0.35, 0.49999999999999994, 0.5, 0.75, 1.0
ProbSamples ==
    << DZero,
       Dbl(104857, 157286, 104858, -57),
       Dbl(104857, 157286, 104857, -55),
       D0_2,
       Dbl(104857, 157286, 104859, -55),
       Dbl(65536, 0, 0, -54),
       Dbl(91750, 104857, 157286, -54),
       Dbl(131071, 262143, 262143, -54),
       D0_5,
       Dbl(98304, 0, 0, -53),
       D1_0 >>


(***************************************************************************)
(* Optional values: None is the empty tuple, a present value x is <<x>>.   *)
(***************************************************************************)
None == << >>

Some(x) == << x >>

IsNone(o) == Len(o) = 0

(***************************************************************************)
(* Inputs: the three files the script reads and the sidebar widgets.       *)
(***************************************************************************)
ModelFile == "modelo_diabetes_logreg.pkl"

ScalerFile == "scaler_diabetes.pkl"

TableFile == "odds_ratios_reales.csv"

FileNames == {ModelFile, ScalerFile, TableFile}

FEATURES == << "nivel_glucosa", "nivel_hba1c", "imc", "hipertension", "cardiopatia" >>

FeatureSet == {FEATURES[i] : i \in 1..Len(FEATURES)}

\* Number of pickled classifiers the model tries as content of ModelFile.
NumClassifiers == 2

\* A pickled classifier is an opaque object to the script: its
\* predict_proba maps a scaled row to a double in [0,1].  Classifier k maps
\* the rows onto ProbSamples so that the rows of the model hit every sample.
ClassifierPickles == 0..(NumClassifiers - 1)

\* A pickled StandardScaler: per-feature mean and scale, in the units of
\* the patient values.
ScalerPickles ==
    { [mean |-> << 120, 55, 250, 0, 0 >>, scale |-> << 1, 1, 1, 1, 1 >>],
      [mean |-> << 101, 57, 251, 1, 0 >>, scale |-> << 10, 3, 10, 1, 1 >>] }

Row(v, o) == [Variable |-> v, OddsRatio |-> o]

\* Contents of the odds-ratio CSV tried by the session model: every
\* variable a risk factor; some rows at or below 1.0 and another row order;
\* a header-only file.
TableCsvs ==
    { << Row("nivel_glucosa", 103), Row("nivel_hba1c", 231), Row("imc", 109),
         Row("hipertension", 215), Row("cardiopatia", 180) >>,
      << Row("cardiopatia", 100), Row("imc", 95), Row("nivel_hba1c", 231),
         Row("hipertension", 101), Row("nivel_glucosa", 201) >>,
      << >> }

\* Sidebar widgets: value at first render (number_input value=, checkbox
\* value=) and the values an interaction may set.
WidgetDefaults ==
    [glucosa |-> 120, hba1c |-> 55, imc |-> 250, ht |-> FALSE, cp |-> FALSE]

GlucosaValues == {90, 120, 180}

Hba1cValues == {55, 80}

ImcValues == {250, 320}

WidgetValues(w) ==
    CASE w = "glucosa" -> GlucosaValues
      [] w = "hba1c" -> Hba1cValues
      [] w = "imc" -> ImcValues
      [] OTHER -> BOOLEAN

WidgetKeys == {"glucosa", "hba1c", "imc", "ht", "cp"}

(***************************************************************************)
(* load_resources: the three loads run in order inside one try block; the  *)
(* first missing file raises FileNotFoundError, which skips the remaining  *)
(* loads and the success message.  The result and the messages emitted.    *)
(***************************************************************************)
Loaded(m, s, t, msg) ==
    [model |-> m, scaler |-> s, or_table |-> t, msgs |-> << msg >>]

ErrorMsg(f) == [kind |-> "error", filename |-> f]

SuccessMsg == [kind |-> "success", filename |-> ""]

\* Mutation of load_resources: each load in a try block of its own, so that
\* a missing file neither skips the later loads nor the later errors.
load_resources_each(present, content) ==
    LET missing == SelectSeq(<< ModelFile, ScalerFile, TableFile >>,
                             LAMBDA f : f \notin present)
    IN  [model |-> IF ModelFile \in present THEN Some(content.model) ELSE None,
         scaler |-> IF ScalerFile \in present THEN Some(content.scaler) ELSE None,
         or_table |-> IF TableFile \in present THEN Some(content.or_table) ELSE None,
         msgs |-> IF Len(missing) = 0 THEN << SuccessMsg >>
                  ELSE [i \in 1..Len(missing) |-> ErrorMsg(missing[i])]]

load_resources(present, content) ==
    IF ModelFile \notin present
      THEN Loaded(None, None, None, ErrorMsg(ModelFile))
    ELSE IF ScalerFile \notin present
      THEN Loaded(Some(content.model), None, None, ErrorMsg(ScalerFile))
    ELSE IF TableFile \notin present
      THEN Loaded(Some(content.model), Some(content.scaler), None,
                  ErrorMsg(TableFile))
    ELSE Loaded(Some(content.model), Some(content.scaler),
                Some(content.or_table), SuccessMsg)

\* Mutation of cached_load_resources: the decorator left out, so that the
\* body runs in every script run.
uncached_load_resources(store, present, content) ==
    LET r == load_resources(present, content)
    IN  [value |-> r, store |-> Some(r), ran |-> TRUE]

\* st.cache_resource around load_resources: the body runs only when the
\* process-wide store holds no entry; its return value is stored, also a
\* degraded one (the exception is caught inside the body).
\* Result: the value returned to the script, the store, whether the body ran.
cached_load_resources(store, present, content) ==
    IF IsNone(store)
      THEN LET r == load_resources(present, content)
           IN  [value |-> r, store |-> Some(r), ran |-> TRUE]
      ELSE [value |-> store[1], store |-> store, ran |-> FALSE]

(***************************************************************************)
(* predict_diabetes                                                        *)
(***************************************************************************)
\* pd.DataFrame([data], columns=FEATURES): the row in FEATURES order.
InputDf(data) == [i \in 1..Len(FEATURES) |-> data[FEATURES[i]]]

\* SCALER.transform: (x - mean) / scale per feature.
Transform(scaler, row) ==
    [i \in 1..Len(FEATURES) |-> (row[i] - scaler.mean[i]) \div scaler.scale[i]]

RowKey(z) == z[1] + z[2] + z[3] + 2 * z[4] + 3 * z[5]

\* MODEL.predict_proba(scaled_data)[0][1]
PredictProba(model, z) == ProbSamples[((RowKey(z) + model) % Len(ProbSamples)) + 1]

\* Mutation of predict_diabetes: the guard written with `and`, so that a
\* missing scaler alone no longer takes the fallback and SCALER.transform is
\* called on None.
predict_diabetes_and(MODEL, SCALER, data) ==
    IF IsNone(MODEL) /\ IsNone(SCALER)
      THEN [prob |-> DZero, input_df |-> None, calls |-> << >>]
    ELSE IF IsNone(MODEL) \/ IsNone(SCALER)
      THEN [prob |-> DZero, input_df |-> Some(InputDf(data)),
            calls |-> << "SCALER.transform" >>]
    ELSE [prob |-> PredictProba(MODEL[1], Transform(SCALER[1], InputDf(data))),
          input_df |-> Some(InputDf(data)),
          calls |-> << "SCALER.transform", "MODEL.predict_proba" >>]

\* Mutation of predict_diabetes: only the classifier is checked, and a row
\* is scored unscaled when there is no scaler.
predict_diabetes_unscaled(MODEL, SCALER, data) ==
    IF IsNone(MODEL)
      THEN [prob |-> DZero, input_df |-> None, calls |-> << >>]
    ELSE IF IsNone(SCALER)
      THEN [prob |-> PredictProba(MODEL[1], InputDf(data)),
            input_df |-> Some(InputDf(data)),
            calls |-> << "MODEL.predict_proba" >>]
    ELSE [prob |-> PredictProba(MODEL[1], Transform(SCALER[1], InputDf(data))),
          input_df |-> Some(InputDf(data)),
          calls |-> << "SCALER.transform", "MODEL.predict_proba" >>]

\* Mutation of predict_diabetes: the fallback returns an even chance.
predict_diabetes_half(MODEL, SCALER, data) ==
    IF IsNone(MODEL) \/ IsNone(SCALER)
      THEN [prob |-> D0_5, input_df |-> None, calls |-> << >>]
    ELSE [prob |-> PredictProba(MODEL[1], Transform(SCALER[1], InputDf(data))),
          input_df |-> Some(InputDf(data)),
          calls |-> << "SCALER.transform", "MODEL.predict_proba" >>]

\* Result: prob, input_df and the library calls made, in order.
predict_diabetes(MODEL, SCALER, data) ==
    IF IsNone(MODEL) \/ IsNone(SCALER)
      THEN [prob |-> DZero, input_df |-> None, calls |-> << >>]
      ELSE LET input_df == InputDf(data)
               scaled_data == Transform(SCALER[1], input_df)
           IN  [prob |-> PredictProba(MODEL[1], scaled_data),
                input_df |-> Some(input_df),
                calls |-> << "SCALER.transform", "MODEL.predict_proba" >>]


(***************************************************************************)
(* Results page: the tier-dependent outputs.  riesgo_pct = prob * 100.     *)
(***************************************************************************)
create_gauge_chart(probability) ==
    IF DGe(probability, D0_5)
      THEN [bar_color |-> "#EF476F", number_color |-> "#EF476F"]
    ELSE IF DGe(probability, D0_2)
      THEN [bar_color |-> "#FFD166", number_color |-> "#FFD166"]
    ELSE [bar_color |-> "#06D6A0", number_color |-> "#06D6A0"]

\* The banner cascade: the alert shown and the recomendacion assigned.
risk_banner(riesgo_pct) ==
    IF DGe(riesgo_pct, D50)
      THEN [alert |-> "alert-high", recomendacion |-> "Accion Inmediata"]
    ELSE IF DGe(riesgo_pct, D20)
      THEN [alert |-> "alert-medium", recomendacion |-> "Monitoreo Activo"]
    ELSE [alert |-> "alert-low", recomendacion |-> "Prevencion"]

riesgo_categoria(riesgo_pct) ==
    IF DGe(riesgo_pct, D50) THEN "ALTO"
    ELSE IF DGe(riesgo_pct, D20) THEN "MODERADO"
    ELSE "BAJO"

confianza(riesgo_pct) ==
    IF DGt(riesgo_pct, D70) \/ DLt(riesgo_pct, D30) THEN 95 ELSE 85

pruebas_sugeridas(riesgo_pct) ==
    IF DGe(riesgo_pct, D50)
      THEN << "Glucemia en ayunas", "CTOG", "Perfil lipidico completo",
              "Funcion renal", "Examen de fondo de ojo" >>
    ELSE IF DGe(riesgo_pct, D20)
      THEN << "Glucemia en ayunas (control cada 3-6 meses)", "HbA1c semestral",
              "Perfil lipidico" >>
    ELSE << "Glucemia anual de rutina", "Control de peso y presion arterial" >>

\* The 'Estado' column of params_display, in row order.
params_estado(glucosa, hba1c, imc, ht_val, cp_val) ==
    << IF glucosa > 125 THEN "Elevado" ELSE "Normal",
       IF hba1c >= 65 THEN "Elevado"
         ELSE IF hba1c >= 57 THEN "Prediabetes" ELSE "Normal",
       IF imc > 300 THEN "Elevado"
         ELSE IF imc > 250 THEN "Sobrepeso" ELSE "Normal",
       IF ht_val = 1 THEN "Presente" ELSE "Ausente",
       IF cp_val = 1 THEN "Presente" ELSE "Ausente" >>

(***************************************************************************)
(* Results page: odds-ratio chart and the factor explainer.                *)
(***************************************************************************)
Bar(row) ==
    [var |-> row.Variable, x |-> row.OddsRatio,
     color |-> IF row.OddsRatio > 200 THEN "#EF476F" ELSE "#FFD166"]

\* Mutation of or_chart_relevant: the filter written with >=.
or_chart_relevant_ge(or_val) == or_val >= 100

\* `if or_val > 1.0` of create_or_chart.
or_chart_relevant(or_val) == or_val > 100

RECURSIVE or_chart_loop(_, _, _)
or_chart_loop(rows, i, bars) ==
    IF i > Len(rows) THEN bars
    ELSE or_chart_loop(rows, i + 1,
                       IF or_chart_relevant(rows[i].OddsRatio)
                         THEN Append(bars, Bar(rows[i])) ELSE bars)

\* None when there is nothing to plot, else the bars in plot order.
create_or_chart(tabla_or) ==
    IF IsNone(tabla_or) \/ Len(tabla_or[1]) = 0 THEN None
    ELSE LET bars == or_chart_loop(tabla_or[1], 1, << >>)
         IN  IF Len(bars) = 0 THEN None ELSE Some(bars)

Factor(label, row, paciente_val) ==
    [factor |-> label, var |-> row.Variable, paciente_val |-> paciente_val,
     or_val |-> row.OddsRatio]

\* Mutation of factores_row: the glucose threshold written with >=.
factores_row_ge(row, paciente_val) ==
    LET var == row.Variable
        or_val == row.OddsRatio
    IN  IF or_val > 100
          THEN IF var = "nivel_glucosa" /\ paciente_val >= 100
                 THEN << Factor("Glucosa Elevada", row, paciente_val) >>
               ELSE IF var = "nivel_hba1c"
                 THEN IF paciente_val >= 65
                        THEN << Factor("HbA1c en rango de Diabetes", row, paciente_val) >>
                      ELSE IF paciente_val >= 57
                        THEN << Factor("HbA1c en Prediabetes", row, paciente_val) >>
                      ELSE << >>
               ELSE IF var = "imc" /\ paciente_val > 250
                 THEN << Factor("IMC Elevado", row, paciente_val) >>
               ELSE IF var = "hipertension" /\ paciente_val = 1
                 THEN << Factor("Hipertension Arterial Presente", row, paciente_val) >>
               ELSE IF var = "cardiopatia" /\ paciente_val = 1
                 THEN << Factor("Enfermedad Cardiovascular Presente", row, paciente_val) >>
               ELSE << >>
          ELSE << >>

\* One iteration of the loop body: the entries it appends.
factores_row(row, paciente_val) ==
    LET var == row.Variable
        or_val == row.OddsRatio
    IN  IF or_val > 100
          THEN IF var = "nivel_glucosa" /\ paciente_val > 100
                 THEN << Factor("Glucosa Elevada", row, paciente_val) >>
               ELSE IF var = "nivel_hba1c"
                 THEN IF paciente_val >= 65
                        THEN << Factor("HbA1c en rango de Diabetes", row, paciente_val) >>
                      ELSE IF paciente_val >= 57
                        THEN << Factor("HbA1c en Prediabetes", row, paciente_val) >>
                      ELSE << >>
               ELSE IF var = "imc" /\ paciente_val > 250
                 THEN << Factor("IMC Elevado", row, paciente_val) >>
               ELSE IF var = "hipertension" /\ paciente_val = 1
                 THEN << Factor("Hipertension Arterial Presente", row, paciente_val) >>
               ELSE IF var = "cardiopatia" /\ paciente_val = 1
                 THEN << Factor("Enfermedad Cardiovascular Presente", row, paciente_val) >>
               ELSE << >>
          ELSE << >>

RECURSIVE factores_loop(_, _, _, _)
factores_loop(rows, i, patient_data, acc) ==
    IF i > Len(rows) THEN acc
    ELSE factores_loop(rows, i + 1, patient_data,
                       acc \o factores_row(rows[i], patient_data[rows[i].Variable]))

\* The loop over TABLA_OR.iterrows(): None.iterrows raises AttributeError.
\* Result: the exception raised (None when none) and the list built.
factores_identificados(TABLA_OR, patient_data) ==
    IF IsNone(TABLA_OR)
      THEN [raised |-> Some("AttributeError"), lista |-> None]
      ELSE [raised |-> None,
            lista |-> Some(factores_loop(TABLA_OR[1], 1, patient_data, << >>))]


(***************************************************************************)
(* State.                                                                  *)
(***************************************************************************)
VARIABLES
    files,                 \* names of the files present in the folder
    disk,                  \* what the three files hold when present
    cache,                 \* the st.cache_resource store of load_resources
    loadCount,             \* executions of the body of load_resources
    filesAtLoad,           \* the files present when the body ran
    emitted,               \* st.success / st.error calls made by the body
    diagnostico_realizado, \* the st.session_state key; None when not set
    widgets,               \* current values of the sidebar widgets
    page                   \* what the last script run computed and rendered

vars == << files, disk, cache, loadCount, filesAtLoad, emitted,
           diagnostico_realizado, widgets, page >>

patient_data(w) ==
    [f \in FeatureSet |->
        CASE f = "nivel_glucosa" -> w.glucosa
          [] f = "nivel_hba1c" -> w.hba1c
          [] f = "imc" -> w.imc
          [] f = "hipertension" -> IF w.ht THEN 1 ELSE 0
          [] OTHER -> IF w.cp THEN 1 ELSE 0]

\* The page of a process in which the script has not run yet.
NoPage ==
    [screen |-> "none", button |-> FALSE, cache_hit |-> FALSE,
     exception |-> None,
     MODEL |-> None, SCALER |-> None, TABLA_OR |-> None,
     patient_data |-> patient_data(WidgetDefaults),
     prob |-> None, riesgo_pct |-> None, calls |-> << >>, gauge |-> None,
     alert |-> None, recomendacion |-> None, estado |-> None,
     riesgo_categoria |-> None, confianza |-> None, or_chart |-> None,
     factores |-> None, pruebas |-> None, trace |-> << >>]

\* The else branch of the script: the initial screen.
initial_page(res, hit, button, w) ==
    [NoPage EXCEPT !.screen = "initial", !.button = button,
                   !.cache_hit = hit,
                   !.MODEL = res.model, !.SCALER = res.scaler,
                   !.TABLA_OR = res.or_table,
                   !.patient_data = patient_data(w),
                   !.trace = << "load_resources", "pantalla_inicial" >>]

\* The if branch of the script: the results page, top to bottom.  An
\* exception ends the run; what was rendered before it stays rendered.
results_page(res, hit, button, w) ==
    LET data == patient_data(w)
        pred == predict_diabetes(res.model, res.scaler, data)
        riesgo_pct == FloatMul100(pred.prob)
        banner == risk_banner(riesgo_pct)
        expl == factores_identificados(res.or_table, data)
        ok == IsNone(expl.raised)
    IN  [screen |-> "results", button |-> button, cache_hit |-> hit,
         exception |-> expl.raised,
         MODEL |-> res.model, SCALER |-> res.scaler, TABLA_OR |-> res.or_table,
         patient_data |-> data,
         prob |-> Some(pred.prob), riesgo_pct |-> Some(riesgo_pct),
         calls |-> << "predict_diabetes" >> \o pred.calls,
         gauge |-> Some(create_gauge_chart(pred.prob)),
         alert |-> Some(banner.alert),
         recomendacion |-> IF ok THEN Some(banner.recomendacion) ELSE None,
         estado |-> Some(params_estado(w.glucosa, w.hba1c, w.imc,
                                       data["hipertension"], data["cardiopatia"])),
         riesgo_categoria |-> Some(riesgo_categoria(riesgo_pct)),
         confianza |-> Some(confianza(riesgo_pct)),
         or_chart |-> create_or_chart(res.or_table),
         factores |-> expl.lista,
         pruebas |-> IF ok THEN Some(pruebas_sugeridas(riesgo_pct)) ELSE None,
         trace |-> << "load_resources", "predict_diabetes", "create_gauge_chart",
                      "risk_banner", "params_display", "riesgo_categoria",
                      "create_or_chart", "tabla_or" >>
                   \o IF ok THEN << "factores_identificados", "recomendacion",
                                    "pruebas_sugeridas", "footer" >>
                      ELSE << >>]

\* Mutation of RunScript: the results are gated on the button itself, so
\* that the session flag follows the button of the current run.
RunScript_button_gate(button, w) ==
    LET c == cached_load_resources(cache, files, disk)
        res == c.value
    IN  /\ cache' = c.store
        /\ loadCount' = IF c.ran THEN loadCount + 1 ELSE loadCount
        /\ filesAtLoad' = IF c.ran THEN Some(files) ELSE filesAtLoad
        /\ emitted' = IF c.ran THEN emitted \o res.msgs ELSE emitted
        /\ diagnostico_realizado' = Some(button)
        /\ widgets' = w
        /\ page' = IF button THEN results_page(res, ~c.ran, button, w)
                   ELSE initial_page(res, ~c.ran, button, w)
        /\ UNCHANGED << files, disk >>

\* One run of the script, top to bottom, with the widget values w; button
\* is what st.button returns in this run.
RunScript(button, w) ==
    LET c == cached_load_resources(cache, files, disk)
        res == c.value
        flag0 == IF IsNone(diagnostico_realizado) THEN FALSE
                 ELSE diagnostico_realizado[1]
        flag == IF button THEN TRUE ELSE flag0
    IN  /\ cache' = c.store
        /\ loadCount' = IF c.ran THEN loadCount + 1 ELSE loadCount
        /\ filesAtLoad' = IF c.ran THEN Some(files) ELSE filesAtLoad
        /\ emitted' = IF c.ran THEN emitted \o res.msgs ELSE emitted
        /\ diagnostico_realizado' = Some(flag)
        /\ widgets' = w
        /\ page' = IF flag THEN results_page(res, ~c.ran, button, w)
                   ELSE initial_page(res, ~c.ran, button, w)
        /\ UNCHANGED << files, disk >>

Init ==
    /\ files \in SUBSET FileNames
    /\ disk \in [model : ClassifierPickles, scaler : ScalerPickles,
                 or_table : TableCsvs]
    /\ cache = None
    /\ loadCount = 0
    /\ filesAtLoad = None
    /\ emitted = << >>
    /\ diagnostico_realizado = None
    /\ widgets = WidgetDefaults
    /\ page = NoPage

\* The browser opens the page: the first run, with the widgets' defaults.
OpenPage ==
    /\ IsNone(diagnostico_realizado)
    /\ RunScript(FALSE, widgets)

\* The user changes one widget: a rerun without the button.
ChangeWidget(k, v) ==
    /\ ~IsNone(diagnostico_realizado)
    /\ widgets[k] # v
    /\ RunScript(FALSE, [widgets EXCEPT ![k] = v])

\* The script is run again with nothing changed (Rerun in the app menu).
Rerun ==
    /\ ~IsNone(diagnostico_realizado)
    /\ RunScript(FALSE, widgets)

\* The user presses REALIZAR DIAGNOSTICO: a rerun in which st.button is True.
PressButton ==
    /\ ~IsNone(diagnostico_realizado)
    /\ RunScript(TRUE, widgets)

\* The environment: a file is put into or taken out of the folder.
PutFile(f) ==
    /\ f \notin files
    /\ files' = files \cup {f}
    /\ UNCHANGED << disk, cache, loadCount, filesAtLoad, emitted,
                    diagnostico_realizado, widgets, page >>

RemoveFile(f) ==
    /\ f \in files
    /\ files' = files \ {f}
    /\ UNCHANGED << disk, cache, loadCount, filesAtLoad, emitted,
                    diagnostico_realizado, widgets, page >>

Next ==
    \/ OpenPage
    \/ \E k \in WidgetKeys : \E v \in WidgetValues(k) : ChangeWidget(k, v)
    \/ PressButton
    \/ Rerun
    \/ \E f \in FileNames : PutFile(f)
    \/ \E f \in FileNames : RemoveFile(f)

Spec == Init /\ [][Next]_vars

(***************************************************************************)
(* The odds-ratio chart and the factor explainer as functions of the table *)
(* and the patient record: a session in which the resources are loaded and *)
(* the diagnosis was requested, the CSV and the widget values drawn from   *)
(* sets that straddle every threshold, and the script run on them.         *)
(***************************************************************************)
ORValues == {95, 100, 150}

TableOrders ==
    { FEATURES,
      << "cardiopatia", "hipertension", "imc", "nivel_hba1c", "nivel_glucosa" >>,
      << "imc", "nivel_glucosa" >>,
      << >> }

WideTableCsvs ==
    { [i \in 1..Len(o) |-> Row(o[i], a[o[i]])] :
        o \in TableOrders, a \in [FeatureSet -> ORValues] }

\* glucosa=180, hba1c=8.0, imc=32, hypertension, no cardiopathy
Example1 == [glucosa |-> 180, hba1c |-> 80, imc |-> 320, ht |-> TRUE, cp |-> FALSE]

\* glucosa=90, hba1c=5.0, imc=22, neither condition
Example2 == [glucosa |-> 90, hba1c |-> 50, imc |-> 220, ht |-> FALSE, cp |-> FALSE]

WideWidgets ==
    [glucosa : {100, 101}, hba1c : {56, 57, 64, 65}, imc : {250, 251},
     ht : BOOLEAN, cp : BOOLEAN] \cup {Example1, Example2}

InitFactors ==
    /\ files = FileNames
    /\ disk \in [model : {0}, scaler : {s \in ScalerPickles : s.scale[1] = 1},
                 or_table : WideTableCsvs]
    /\ cache = Some(load_resources(files, disk))
    /\ loadCount = 1
    /\ filesAtLoad = Some(files)
    /\ emitted = << SuccessMsg >>
    /\ diagnostico_realizado = Some(TRUE)
    /\ widgets \in WideWidgets
    /\ page = NoPage

NextFactors == Rerun

SpecFactors == InitFactors /\ [][NextFactors]_vars


(***************************************************************************)
(* Properties of the session model (Spec).                                 *)
(***************************************************************************)
ResultsShown == page.screen = "results"

Degraded == IsNone(page.MODEL) \/ IsNone(page.SCALER)

MissingAtLoad == IF IsNone(filesAtLoad) THEN {} ELSE FileNames \ filesAtLoad[1]

FullTrace ==
    << "load_resources", "predict_diabetes", "create_gauge_chart",
       "risk_banner", "params_display", "riesgo_categoria",
       "create_or_chart", "tabla_or", "factores_identificados",
       "recomendacion", "pruebas_sugeridas", "footer" >>

\* C1: whatever files are missing, a requested diagnosis runs the results
\* page to its footer without an unhandled exception.
C1_NoCrash ==
    ResultsShown =>
        /\ IsNone(page.exception)
        /\ page.trace[Len(page.trace)] = "footer"

\* C2: when any of the three files was missing when the resources were
\* loaded, predict_diabetes returns probability 0.0 for every record.
C2_AnyMissingGivesZero ==
    (ResultsShown /\ MissingAtLoad # {}) => page.prob = Some(DZero)

\* C2 as amended: when the classifier file or the scaler file was missing
\* when the resources were loaded, predict_diabetes returns 0.0; when only
\* the odds-ratio table was missing it returns the classifier's probability
\* of the scaled record.
C2_ModelOrScalerMissingGivesZero ==
    ResultsShown =>
        /\ (MissingAtLoad \cap {ModelFile, ScalerFile} # {})
              => page.prob = Some(DZero)
        /\ (MissingAtLoad = {TableFile})
              => page.prob = Some(PredictProba(disk.model,
                                     Transform(disk.scaler, InputDf(page.patient_data))))

\* C2 witness: the scaler file alone was missing at load (the classifier was
\* loaded and would score the record above 0), and the score shown is 0.0.
C2_Witness ==
    /\ ResultsShown
    /\ MissingAtLoad = {ScalerFile}
    /\ ~IsNone(page.MODEL)
    /\ ~IsZero(PredictProba(disk.model,
                            Transform(disk.scaler, InputDf(page.patient_data))))
    /\ page.prob = Some(DZero)

\* C3: whenever a risk assessment is computed its probability is strictly
\* between 0 and 1.
C3_ProbStrictlyInside ==
    ResultsShown => (DGt(page.prob[1], DZero) /\ DLt(page.prob[1], D1_0))

\* C3 as amended: the probability is in the closed interval [0,1], and it
\* is exactly 0.0 whenever the classifier or the scaler is not loaded.
C3_ProbInUnitInterval ==
    ResultsShown =>
        /\ DGe(page.prob[1], DZero)
        /\ DGe(D1_0, page.prob[1])
        /\ Degraded => page.prob[1] = DZero

\* C3 witness: a results page computed without classifier, showing 0.0.
C3_Witness ==
    /\ ResultsShown
    /\ IsNone(page.MODEL)
    /\ page.prob = Some(DZero)
    /\ page.riesgo_pct = Some(DZero)

\* C4: with the scaler or the classifier absent predict_diabetes returns
\* exactly 0.0 and calls neither of them; with both present it returns the
\* classifier's probability of the scaled record; the record and the
\* loaded resources are the same after the call.
C4_PredictContract ==
    ResultsShown =>
        /\ Degraded =>
              /\ page.prob = Some(DZero)
              /\ page.calls = << "predict_diabetes" >>
        /\ ~Degraded =>
              /\ page.prob = Some(PredictProba(page.MODEL[1],
                                   Transform(page.SCALER[1], InputDf(page.patient_data))))
              /\ page.calls = << "predict_diabetes", "SCALER.transform",
                                 "MODEL.predict_proba" >>
        /\ page.patient_data = patient_data(widgets)
        /\ << page.MODEL, page.SCALER, page.TABLA_OR >>
             = << cache[1].model, cache[1].scaler, cache[1].or_table >>

\* C4 witness: predict_diabetes was called with the classifier loaded and
\* the scaler absent, and returned 0.0 without a library call.
C4_Witness ==
    /\ ResultsShown
    /\ ~IsNone(page.MODEL)
    /\ IsNone(page.SCALER)
    /\ page.calls = << "predict_diabetes" >>
    /\ page.prob = Some(DZero)

\* The tier an output is the variant of.
TierOfGauge(g) ==
    CASE g.bar_color = "#EF476F" -> "HIGH"
      [] g.bar_color = "#FFD166" -> "MODERATE"
      [] OTHER -> "LOW"

TierOfAlert(a) ==
    CASE a = "alert-high" -> "HIGH"
      [] a = "alert-medium" -> "MODERATE"
      [] OTHER -> "LOW"

TierOfCategoria(c) ==
    CASE c = "ALTO" -> "HIGH"
      [] c = "MODERADO" -> "MODERATE"
      [] OTHER -> "LOW"

TierOfRecomendacion(r) ==
    CASE r = "Accion Inmediata" -> "HIGH"
      [] r = "Monitoreo Activo" -> "MODERATE"
      [] OTHER -> "LOW"

TierOfPruebas(t) ==
    CASE Len(t) = 5 -> "HIGH"
      [] Len(t) = 3 -> "MODERATE"
      [] OTHER -> "LOW"

\* The tier the thresholds 0.50 and 0.20 give a probability.
TierOfProbability(p) ==
    IF DGe(p, D0_5) THEN "HIGH"
    ELSE IF DGe(p, D0_2) THEN "MODERATE"
    ELSE "LOW"

\* C5: the tier shown (banner and 'Categoria de Riesgo') is HIGH for
\* p >= 0.50, MODERATE for 0.20 <= p < 0.50 and LOW for p < 0.20.
C5_TierStepFunction ==
    ResultsShown =>
        /\ TierOfCategoria(page.riesgo_categoria[1]) = TierOfProbability(page.prob[1])
        /\ TierOfAlert(page.alert[1]) = TierOfProbability(page.prob[1])


(***************************************************************************)
(* Properties of the chart and the explainer (SpecFactors).                *)
(***************************************************************************)
\* Whether a patient value trips the clinical threshold of its variable.
Trips(var, val) ==
    CASE var = "nivel_glucosa" -> val > 100
      [] var = "nivel_hba1c" -> val >= 57
      [] var = "imc" -> val > 250
      [] var = "hipertension" -> val = 1
      [] var = "cardiopatia" -> val = 1
      [] OTHER -> FALSE

TextOf(var, val) ==
    CASE var = "nivel_glucosa" -> "Glucosa Elevada"
      [] var = "nivel_hba1c" ->
           IF val >= 65 THEN "HbA1c en rango de Diabetes" ELSE "HbA1c en Prediabetes"
      [] var = "imc" -> "IMC Elevado"
      [] var = "hipertension" -> "Hipertension Arterial Presente"
      [] OTHER -> "Enfermedad Cardiovascular Presente"

ExplainerDone == ResultsShown /\ ~IsNone(page.factores)

ReportedVars == {page.factores[1][i].var : i \in 1..Len(page.factores[1])}

AllRiskFactors(rows) ==
    /\ {rows[i].Variable : i \in 1..Len(rows)} = FeatureSet
    /\ \A i \in 1..Len(rows) : rows[i].OddsRatio > 100

\* C6: the factors reported are exactly the table rows, in row order and
\* one entry each, whose odds ratio is > 1.0 and whose patient value trips
\* the variable's threshold, HbA1c with the diabetes text from 6.5 and the
\* prediabetes text from 5.7; the two example records report glucose,
\* HbA1c, IMC and hypertension, and nothing.
C6_FactorsAreTrippedRiskRows ==
    ExplainerDone =>
        LET rows == page.TABLA_OR[1]
            data == page.patient_data
            kept == SelectSeq(rows, LAMBDA r :
                        r.OddsRatio > 100 /\ Trips(r.Variable, data[r.Variable]))
            lista == page.factores[1]
        IN  /\ Len(lista) = Len(kept)
            /\ \A i \in 1..Len(kept) :
                  /\ lista[i].var = kept[i].Variable
                  /\ lista[i].or_val = kept[i].OddsRatio
                  /\ lista[i].paciente_val = data[kept[i].Variable]
                  /\ lista[i].factor = TextOf(kept[i].Variable, data[kept[i].Variable])
            /\ (data = patient_data(Example1) /\ AllRiskFactors(rows))
                  => ReportedVars = FeatureSet \ {"cardiopatia"}
            /\ (data = patient_data(Example2)) => lista = << >>

\* C6 witness: the first example record under a table of five risk factors,
\* four factors reported.
C6_Witness ==
    /\ ExplainerDone
    /\ page.patient_data = patient_data(Example1)
    /\ AllRiskFactors(page.TABLA_OR[1])
    /\ Len(page.factores[1]) = 4

\* C7: no row whose odds ratio is <= 1.0 has an entry in the explainer's
\* list or in the bar chart, whatever the patient's value.
C7_NoEntryAtOrBelowOne ==
    ResultsShown =>
        \A i \in 1..(IF IsNone(page.TABLA_OR) THEN 0 ELSE Len(page.TABLA_OR[1])) :
            LET row == page.TABLA_OR[1][i]
            IN  row.OddsRatio <= 100 =>
                  /\ IsNone(page.factores) \/
                       \A j \in 1..Len(page.factores[1]) :
                           ~(/\ page.factores[1][j].var = row.Variable
                             /\ page.factores[1][j].or_val = row.OddsRatio)
                  /\ IsNone(page.or_chart) \/
                       \A j \in 1..Len(page.or_chart[1]) :
                           ~(/\ page.or_chart[1][j].var = row.Variable
                             /\ page.or_chart[1][j].x = row.OddsRatio)

\* C7 witness: glucose has odds ratio exactly 1.0 and HbA1c 0.95, the
\* patient is above both thresholds, another variable is charted and
\* reported, and neither glucose nor HbA1c is.
C7_Witness ==
    /\ ExplainerDone
    /\ \E i \in 1..Len(page.TABLA_OR[1]) :
          page.TABLA_OR[1][i] = Row("nivel_glucosa", 100)
    /\ \E i \in 1..Len(page.TABLA_OR[1]) :
          page.TABLA_OR[1][i] = Row("nivel_hba1c", 95)
    /\ page.patient_data["nivel_glucosa"] > 100
    /\ page.patient_data["nivel_hba1c"] >= 65
    /\ ~IsNone(page.or_chart)
    /\ ReportedVars # {}
    /\ ReportedVars \cap {"nivel_glucosa", "nivel_hba1c"} = {}

(***************************************************************************)
(* Further properties of the session model (Spec).                         *)
(***************************************************************************)
\* C8: the body of load_resources runs at most once in the process, and
\* every script run gets the triple that run returned, also a degraded one.
C8_LoadedOnce ==
    /\ loadCount <= 1
    /\ page.screen # "none" =>
          /\ loadCount = 1
          /\ LET first == load_resources(filesAtLoad[1], disk)
             IN  << page.MODEL, page.SCALER, page.TABLA_OR >>
                   = << first.model, first.scaler, first.or_table >>

\* C8 witness: the first load found no classifier file; all three files are
\* in the folder now, and a press of the button was served from the cache
\* with no classifier.
C8_Witness ==
    /\ loadCount = 1
    /\ ModelFile \notin filesAtLoad[1]
    /\ files = FileNames
    /\ page.button
    /\ page.cache_hit
    /\ IsNone(page.MODEL)

\* C9: a press of the button runs the whole pipeline once, in order: the
\* cached load, one call of predict_diabetes, the tier from that call's
\* probability, the explainer, the rest of the page to the footer.
C9_PressRunsFullPipeline ==
    page.button =>
        /\ page.trace = FullTrace
        /\ Cardinality({i \in 1..Len(page.calls) :
                            page.calls[i] = "predict_diabetes"}) = 1
        /\ page.riesgo_categoria
             = Some(riesgo_categoria(FloatMul100(page.prob[1])))

\* C10: on a results page every tier-dependent output is the variant of
\* one and the same tier.
C10_OneTierPerPage ==
    (ResultsShown /\ IsNone(page.exception)) =>
        LET t == TierOfGauge(page.gauge[1])
        IN  /\ TierOfAlert(page.alert[1]) = t
            /\ TierOfRecomendacion(page.recomendacion[1]) = t
            /\ TierOfCategoria(page.riesgo_categoria[1]) = t
            /\ TierOfPruebas(page.pruebas[1]) = t


\* The files in the order load_resources reads them.
LoadOrder == << ModelFile, ScalerFile, TableFile >>

\* The three values load_resources returned, in load order.
Returned == << cache[1].model, cache[1].scaler, cache[1].or_table >>

\* Positions in LoadOrder of the files that were missing when the body ran.
MissingPositions == {i \in 1..Len(LoadOrder) : LoadOrder[i] \notin filesAtLoad[1]}

FirstMissing == CHOOSE i \in MissingPositions : \A j \in MissingPositions : i <= j

\* C11: with files missing, load_resources emits exactly one error, naming
\* the first missing file in load order; the resources before it are
\* returned loaded, it and all after it are returned None, also those whose
\* file is present; the success message is emitted iff all three loaded.
C11_OneErrorFirstMissing ==
    loadCount = 1 =>
        /\ MissingPositions # {} =>
              /\ emitted = << ErrorMsg(LoadOrder[FirstMissing]) >>
              /\ \A i \in 1..Len(LoadOrder) :
                    IsNone(Returned[i]) <=> i >= FirstMissing
        /\ (\E i \in 1..Len(emitted) : emitted[i] = SuccessMsg)
              <=> \A i \in 1..Len(LoadOrder) : ~IsNone(Returned[i])
        /\ MissingPositions = {} => emitted = << SuccessMsg >>

\* C11 witness: only the classifier file was missing when the body ran;
\* one error names it, and the scaler and the table are None although their
\* files were there.
C11_Witness ==
    /\ loadCount = 1
    /\ filesAtLoad = Some({ScalerFile, TableFile})
    /\ emitted = << ErrorMsg(ModelFile) >>
    /\ IsNone(cache[1].scaler)
    /\ IsNone(cache[1].or_table)


\* What holds of the session flag and the page in every state: no flag
\* before the first run; afterwards the results page is shown, and
\* predict_diabetes was called, exactly when the flag is True, and the
\* results are those of the current widget values.
FlagGatesResults ==
    /\ IsNone(diagnostico_realizado) <=> page.screen = "none"
    /\ ResultsShown <=> diagnostico_realizado = Some(TRUE)
    /\ page.screen = "initial" <=> diagnostico_realizado = Some(FALSE)
    /\ (\E i \in 1..Len(page.calls) : page.calls[i] = "predict_diabetes")
          <=> diagnostico_realizado = Some(TRUE)
    /\ ResultsShown =>
          /\ page.patient_data = patient_data(widgets)
          /\ page.prob = Some(predict_diabetes(page.MODEL, page.SCALER,
                                               patient_data(widgets)).prob)

\* How the session flag changes in a step: the first run sets it to False,
\* only a run with the button pressed turns it True, it never leaves True.
FlagStep ==
    /\ IsNone(diagnostico_realizado) /\ ~IsNone(diagnostico_realizado')
          => diagnostico_realizado' = Some(FALSE)
    /\ diagnostico_realizado = Some(FALSE) /\ diagnostico_realizado' # Some(FALSE)
          => diagnostico_realizado' = Some(TRUE) /\ page'.button
    /\ diagnostico_realizado = Some(TRUE) => diagnostico_realizado' = Some(TRUE)

\* C12: the flag is False at session start, is set to True only by a press
\* of the button and is never reset; a run shows the results page and calls
\* predict_diabetes iff the flag is True, so no scoring before the first
\* press, and after it every rerun shows results for the current inputs
\* without another press.
C12_FlagLatchesResults == [] FlagGatesResults /\ [][FlagStep]_vars

\* C12 witness: after a press, a widget was changed; the rerun, without the
\* button, shows results for the changed inputs.
C12_Witness ==
    /\ diagnostico_realizado = Some(TRUE)
    /\ ResultsShown
    /\ ~page.button
    /\ widgets # WidgetDefaults
    /\ page.patient_data = patient_data(widgets)
    /\ ~IsNone(page.prob)


\* The 'Estado' annotations of params_display that mark a parameter as
\* normal or absent.
EstadoNormal == {"Normal", "Ausente"}

\* C13: under a table in which all five variables have odds ratio > 1.0, a
\* parameter is reported as a factor by the explainer iff its 'Estado' in
\* the parameter summary table is not the normal/absent one.
C13_EstadoAgreesWithExplainer ==
    (ExplainerDone /\ AllRiskFactors(page.TABLA_OR[1])) =>
        \A i \in 1..Len(FEATURES) :
            (FEATURES[i] \in ReportedVars) <=> (page.estado[1][i] \notin EstadoNormal)

====
